---- MODULE Spec2Model ----
(***************************************************************************)
(* Non-parametric baselines of pykeen (src/src/pykeen/models/baseline.py): *)
(* the sparse co-occurrence and relation-similarity builders, the three    *)
(* evaluation-only baseline models and the benchmark harness.              *)
(***************************************************************************)
EXTENDS Integers, Sequences, FiniteSets, TLC

VARIABLES
    triples_factory,  \* the CoreTriplesFactory the builders and models read
    model,            \* the baseline object constructed last (cls = "None": none yet)
    pc,               \* "idle": no call in progress; "called": a call has produced `result`
    call,             \* the operation called last, with its arguments
    result,           \* what that call returned or raised
    harness,          \* the state of one run of _build (see the harness section)
    analysis          \* the state of one run of the expected_metrics command

vars == <<triples_factory, model, pc, call, result, harness, analysis>>

(***************************************************************************)
(* Bounds of the model.                                                    *)
(***************************************************************************)
NumEntities == 2
NumRelations == 2
MaxTriples == 2
MaxModelTriples == 1
MaxBatch == 1

\* The width of numpy's int in bits.  It is 64 in the program; the model
\* scales it down so that the products the overflow check is about are
\* numbers TLC can form.
IntBits == 8

\* numpy.iinfo(int_type=int).max
IntMax == 2 ^ (IntBits - 1) - 1

\* Integer array arithmetic of numpy: the result wraps around silently
\* (two's complement of IntBits bits).
WrapInt(x) == ((x + 2 ^ (IntBits - 1)) % (2 ^ IntBits)) - 2 ^ (IntBits - 1)

(***************************************************************************)
(* Numbers.  A matrix value is a fraction <<n, d>> in lowest terms with    *)
(* d > 0, or one of the IEEE-754 specials the float division of the code   *)
(* can produce: <<1, 0>> is +inf, <<-1, 0>> is -inf and <<0, 0>> is nan.   *)
(* float32 rounding of a quotient is not modelled: it is monotone, and the *)
(* thresholds of the model are exactly representable.                      *)
(***************************************************************************)
Abs(n) == IF n < 0 THEN -n ELSE n

Sign(n) == IF n > 0 THEN 1 ELSE IF n < 0 THEN -1 ELSE 0

RECURSIVE Gcd(_, _)
Gcd(a, b) == IF b = 0 THEN a ELSE Gcd(b, a % b)

Zero == <<0, 1>>
One == <<1, 1>>
PosInf == <<1, 0>>
NegInf == <<-1, 0>>
NaN == <<0, 0>>

IsNaN(x) == x = NaN
IsFinite(x) == x[2] # 0

\* n / d as the floating-point division computes it (d = 0 gives inf or nan).
Frac(n, d) ==
    IF d = 0 THEN <<Sign(n), 0>>
    ELSE LET g == Gcd(Abs(n), Abs(d))
         IN  <<(Sign(d) * n) \div g, Abs(d) \div g>>

FromInt(n) == <<n, 1>>

FAdd(x, y) ==
    IF IsNaN(x) \/ IsNaN(y) THEN NaN
    ELSE IF ~IsFinite(x) /\ ~IsFinite(y) THEN (IF x = y THEN x ELSE NaN)
    ELSE IF ~IsFinite(x) THEN x
    ELSE IF ~IsFinite(y) THEN y
    ELSE Frac(x[1] * y[2] + y[1] * x[2], x[2] * y[2])

FMul(x, y) ==
    IF IsNaN(x) \/ IsNaN(y) THEN NaN
    ELSE IF ~IsFinite(x) \/ ~IsFinite(y)
         THEN <<Sign(x[1]) * Sign(y[1]), 0>>   \* inf * 0 is nan
    ELSE Frac(x[1] * y[1], x[2] * y[2])

FDiv(x, y) ==
    IF IsNaN(x) \/ IsNaN(y) THEN NaN
    ELSE IF ~IsFinite(x) /\ ~IsFinite(y) THEN NaN
    ELSE IF ~IsFinite(x) THEN <<Sign(x[1]) * (IF y[1] < 0 THEN -1 ELSE 1), 0>>
    ELSE IF ~IsFinite(y) THEN Zero
    ELSE Frac(x[1] * y[2], x[2] * y[1])

\* x < y as IEEE-754 compares: false whenever an operand is nan.
FLess(x, y) ==
    IF IsNaN(x) \/ IsNaN(y) THEN FALSE
    ELSE IF ~IsFinite(x) /\ ~IsFinite(y) THEN x[1] < y[1]
    ELSE IF ~IsFinite(x) THEN x[1] < 0
    ELSE IF ~IsFinite(y) THEN y[1] > 0
    ELSE x[1] * y[2] < y[1] * x[2]

FLeq(x, y) == ~IsNaN(x) /\ ~IsNaN(y) /\ (x = y \/ FLess(x, y))

FAbs(x) == <<Abs(x[1]), x[2]>>

(***************************************************************************)
(* Sparse matrices.  A matrix is its shape and its stored entries: `data`  *)
(* maps the stored positions <<i, j>> (0-based) to their values.  A        *)
(* position that is not stored reads as 0.                                 *)
(***************************************************************************)
EmptyMatrix(m, n) == [nrows |-> m, ncols |-> n, data |-> <<>>]

Stored(M) == DOMAIN M.data

Get(M, i, j) == IF <<i, j>> \in Stored(M) THEN M.data[<<i, j>>] ELSE Zero

\* A scatter that overwrites instead of accumulating.
AddAt_overwrite(M, i, j, v) ==
    [M EXCEPT !.data = [p \in Stored(M) \cup {<<i, j>>} |-> IF p = <<i, j>> THEN v ELSE M.data[p]]]

\* Scatter-add of one value into a coordinate-list matrix.
AddAt(M, i, j, v) ==
    [M EXCEPT !.data =
        [p \in Stored(M) \cup {<<i, j>>} |->
            IF p = <<i, j>> THEN FAdd(Get(M, i, j), v) ELSE M.data[p]]]

\* todense(): one row of the matrix as a sequence over the columns 0..ncols-1.
DenseRow(M, i) == [c \in 1..M.ncols |-> Get(M, i, c - 1)]

\* The sum of s[lo..hi], by halves.
RECURSIVE FSumRange(_, _, _)
FSumRange(s, lo, hi) ==
    IF lo > hi THEN Zero
    ELSE IF lo = hi THEN s[lo]
    ELSE LET mid == (lo + hi) \div 2
         IN  FAdd(FSumRange(s, lo, mid), FSumRange(s, mid + 1, hi))

FSum(s) == FSumRange(s, 1, Len(s))

RowSum(M, i) == FSum(DenseRow(M, i))

(***************************************************************************)
(* Triples.  A triple is <<head, relation, tail>>; Python column c is      *)
(* component c + 1.                                                        *)
(***************************************************************************)
Col(t, c) == t[c + 1]

Entities == 0..(NumEntities - 1)
Relations == 0..(NumRelations - 1)
Triples == Entities \X Relations \X Entities

RECURSIVE SeqsUpTo(_, _)
SeqsUpTo(S, n) ==
    IF n = 0 THEN {<<>>}
    ELSE LET shorter == SeqsUpTo(S, n - 1)
         IN  shorter \cup {Append(s, x) : s \in {q \in shorter : Len(q) = n - 1}, x \in S}

num_triples(tf) == Len(tf.mapped_triples)

FactoriesUpTo(n) ==
    {[num_entities |-> NumEntities, num_relations |-> NumRelations, mapped_triples |-> ts] :
        ts \in SeqsUpTo(Triples, n)}

TriplesFactories == FactoriesUpTo(MaxTriples)

\* The factories a model is constructed from in ScoreSpec: one row order per
\* multiset of triples (rows in nondecreasing order).  The builders are
\* explored over every row order in Spec and SimSpec.
TripleKey(t) == (t[1] * NumRelations + t[2]) * NumEntities + t[3]

ModelFactories ==
    {tf \in FactoriesUpTo(MaxModelTriples) :
        \A k \in 1..(num_triples(tf) - 1) :
            TripleKey(tf.mapped_triples[k]) <= TripleKey(tf.mapped_triples[k + 1])}

_get_max_id(tf, index) == IF index = 1 THEN tf.num_relations ELSE tf.num_entities

(***************************************************************************)
(* Outcomes of a call: a returned value or a raised error.                 *)
(***************************************************************************)
Returned(v) == [status |-> "returned", error |-> "", value |-> v]
Raised(e) == [status |-> "raised", error |-> e, value |-> <<>>]
NoResult == [status |-> "none", error |-> "", value |-> <<>>]
NoCall == [op |-> "none"]

(***************************************************************************)
(* SparseCooccurrenceBuilder: _get_csr_matrix.                             *)
(***************************************************************************)
\* scipy.sparse.coo_matrix((data, (row, col)), shape).tocsr(): the entries
\* are added one by one, so a position given more than once accumulates.
RECURSIVE coo_tocsr(_, _, _, _, _)
coo_tocsr(data, row, col, m, n) ==
    IF data = <<>> THEN EmptyMatrix(m, n)
    ELSE LET k == Len(data)
             rest == coo_tocsr(SubSeq(data, 1, k - 1), SubSeq(row, 1, k - 1),
                               SubSeq(col, 1, k - 1), m, n)
         IN  AddAt(rest, row[k], col[k], data[k])

\* numpy.ones(n)
ones(n) == [k \in 1..n |-> One]

\* mapped_triples[:, c]
Column(ts, c) == [k \in 1..Len(ts) |-> Col(ts[k], c)]

\* A normalisation along the wrong axis: every entry divided by its column sum.
sklearn_normalize_axis0(M) ==
    [M EXCEPT !.data =
        [p \in Stored(M) |->
            LET s == FSum([a \in 1..M.nrows |-> FAbs(Get(M, a - 1, p[2]))])
            IN  IF s = Zero THEN M.data[p] ELSE FDiv(M.data[p], s)]]

\* sklearn.preprocessing.normalize(matrix, norm="l1", axis=1) on a CSR matrix:
\* every stored entry is divided by the sum of the absolute values of its row;
\* a row whose sum is zero is skipped.
sklearn_normalize(M) ==
    [M EXCEPT !.data =
        [p \in Stored(M) |->
            LET s == FSum([c \in 1..M.ncols |-> FAbs(Get(M, p[1], c - 1))])
            IN  IF s = Zero THEN M.data[p] ELSE FDiv(M.data[p], s)]]

_get_csr_matrix(tf, col_index, row_index, normalize) ==
    IF row_index = col_index THEN Raised("AssertionError")
    ELSE LET row == Column(tf.mapped_triples, row_index)
             col == Column(tf.mapped_triples, col_index)
             num_rows == _get_max_id(tf, row_index)
             num_columns == _get_max_id(tf, col_index)
             matrix == coo_tocsr(ones(num_triples(tf)), row, col, num_rows, num_columns)
         IN  Returned(IF normalize THEN sklearn_normalize(matrix) ELSE matrix)

(***************************************************************************)
(* RelationSimilarityBuilder: _get_relation_similarity.                    *)
(***************************************************************************)
\* threshold: Optional[float]
None == [given |-> FALSE, value |-> Zero]
Some(x) == [given |-> TRUE, value |-> x]
Thresholds == {None, Some(<<1, 2>>), Some(One)}

\* num_entities * mapped_triples[:, first] + mapped_triples[:, second]
PairIndex(tf, first, second) ==
    [k \in 1..Len(tf.mapped_triples) |->
        WrapInt(WrapInt(tf.num_entities * Col(tf.mapped_triples[k], first))
                    + Col(tf.mapped_triples[k], second))]

\* The relation x entity-pair matrix r (or r2 when `swap`): one 1 per triple at
\* (relation, num_entities * first + second), duplicates summed.
PairMatrix(tf, swap) ==
    LET ts == tf.mapped_triples
        first == IF swap THEN 2 ELSE 0
        second == IF swap THEN 0 ELSE 2
    IN  coo_tocsr(ones(Len(ts)), Column(ts, 1), PairIndex(tf, first, second),
                  tf.num_relations, tf.num_entities * tf.num_entities)

\* numpy.asarray(r.sum(axis=1)).squeeze(axis=-1)
Cardinality_(r) == [a \in 0..(r.nrows - 1) |-> RowSum(r, a)]

\* numpy.asarray((r @ r2.T).todense())
Intersection(r, r2) ==
    [a \in 0..(r.nrows - 1) |-> [b \in 0..(r2.nrows - 1) |->
        FSum([p \in 1..r.ncols |-> FMul(Get(r, a, p - 1), Get(r2, b, p - 1))])]]

\* The dense similarity array before it is made sparse.
DenseSimilarity(tf, to_inverse, threshold) ==
    LET r == PairMatrix(tf, FALSE)
        cardinality == Cardinality_(r)
        r2 == IF to_inverse THEN PairMatrix(tf, TRUE) ELSE r
        intersection == Intersection(r, r2)
        rels == 0..(tf.num_relations - 1)
        union == [a \in rels |-> [b \in rels |->
                    cardinality[a][1] + cardinality[b][1] - intersection[a][b][1]]]
        sim == [a \in rels |-> [b \in rels |-> Frac(intersection[a][b][1], union[a][b])]]
    IN  [a \in rels |-> [b \in rels |->
            IF threshold.given /\ FLess(sim[a][b], threshold.value) THEN Zero ELSE sim[a][b]]]

\* scipy.sparse.csr_matrix(dense) followed by eliminate_zeros(): the entries
\* that differ from 0 are stored (nan differs from 0).
csr_matrix(dense, m, n) ==
    [nrows |-> m, ncols |-> n,
     data |-> [p \in {q \in (0..(m - 1)) \X (0..(n - 1)) : dense[q[1]][q[2]] # Zero} |->
                 dense[p[1]][p[2]]]]

_get_relation_similarity(tf, to_inverse, threshold) ==
    IF ~(tf.num_entities * tf.num_relations < IntMax) THEN Raised("AssertionError")
    ELSE Returned(csr_matrix(DenseSimilarity(tf, to_inverse, threshold),
                             tf.num_relations, tf.num_relations))

\* What a call of _get_relation_similarity can end with.  When the pair index
\* space num_entities ** 2 is beyond the integer range but the assertion
\* passes, the code goes on into scipy and numpy: coo_matrix rejects a
\* negative (wrapped) column index with a ValueError; with the indices it was
\* given in range, the libraries either fail on the shape after r is built
\* or compute the similarity over the indices as they are.
_get_relation_similarity_outcomes(tf, to_inverse, threshold) ==
    LET asserted == _get_relation_similarity(tf, to_inverse, threshold)
        indices == {PairIndex(tf, 0, 2)[k] : k \in 1..num_triples(tf)}
                     \cup (IF to_inverse THEN {PairIndex(tf, 2, 0)[k] : k \in 1..num_triples(tf)}
                           ELSE {})
    IN  IF asserted.status = "raised" THEN {asserted}
        ELSE IF tf.num_entities * tf.num_entities <= IntMax THEN {asserted}
        ELSE IF \E i \in indices : i < 0 THEN {Raised("ValueError")}
        ELSE {Raised("MemoryError"), asserted}

(***************************************************************************)
(* The builders as operations of a caller.                                 *)
(***************************************************************************)
Roles == {0, 1, 2}

NoModel == [cls |-> "None"]

IdleHarness == [phase |-> "none"]

NoAnalysis == [phase |-> "none"]

Init ==
    /\ triples_factory \in TriplesFactories
    /\ model = NoModel
    /\ pc = "idle"
    /\ call = NoCall
    /\ result = NoResult
    /\ harness = IdleHarness
    /\ analysis = NoAnalysis

CallGetCsrMatrix ==
    /\ pc = "idle"
    /\ \E row_index \in Roles, col_index \in Roles, normalize \in BOOLEAN :
        /\ call' = [op |-> "_get_csr_matrix", row_index |-> row_index,
                    col_index |-> col_index, normalize |-> normalize]
        /\ result' = _get_csr_matrix(triples_factory, col_index, row_index, normalize)
    /\ pc' = "called"
    /\ UNCHANGED <<triples_factory, model, harness, analysis>>

CallGetRelationSimilarity ==
    /\ pc = "idle"
    /\ \E to_inverse \in BOOLEAN, threshold \in Thresholds :
        /\ call' = [op |-> "_get_relation_similarity", to_inverse |-> to_inverse,
                    threshold |-> threshold]
        /\ result' \in _get_relation_similarity_outcomes(triples_factory, to_inverse, threshold)
    /\ pc' = "called"
    /\ UNCHANGED <<triples_factory, model, harness, analysis>>

\* The caller takes the outcome; the next call can start.
Return ==
    /\ pc = "called"
    /\ pc' = "idle"
    /\ call' = NoCall
    /\ result' = NoResult
    /\ UNCHANGED <<triples_factory, model, harness, analysis>>

\* A caller of the co-occurrence builder.
Next == CallGetCsrMatrix \/ Return

Spec == Init /\ [][Next]_vars

\* A caller of the relation-similarity builder.
SimNext == CallGetRelationSimilarity \/ Return

SimSpec == Init /\ [][SimNext]_vars

\* Factories at the edge of the integer range: the largest number of
\* entities whose square is in range, the smallest whose square is not, the
\* smallest whose pair index wraps around to a non-negative number, and the
\* largest integer itself; few relations, and at most one triple, over the
\* first and the last entity.
EdgeEntities ==
    LET beyond == CHOOSE n \in 1..IntMax : n * n > IntMax /\ (n - 1) * (n - 1) <= IntMax
        twice == CHOOSE n \in 1..IntMax :
                    n * (n - 1) >= 2 ^ IntBits /\ (n - 1) * (n - 2) < 2 ^ IntBits
    IN  {beyond - 1, beyond, twice, IntMax}

EdgeTriples(n, m) ==
    {<<>>} \cup {<<<<h, r, t>>>> : h \in {0, n - 1}, r \in {0, m - 1}, t \in {0, n - 1}}

EdgeFactories ==
    UNION {{[num_entities |-> n, num_relations |-> m, mapped_triples |-> ts] :
                ts \in EdgeTriples(n, m)} : n \in EdgeEntities, m \in 1..NumRelations}

OverflowInit ==
    /\ triples_factory \in EdgeFactories
    /\ model = NoModel
    /\ pc = "idle"
    /\ call = NoCall
    /\ result = NoResult
    /\ harness = IdleHarness
    /\ analysis = NoAnalysis

\* A caller of the relation-similarity builder on a large factory.
OverflowSpec == OverflowInit /\ [][SimNext]_vars

(***************************************************************************)
(* Query batches.  A batch is a 2-dimensional integer tensor: its number   *)
(* of columns and its rows.  An empty batch still has a column count.      *)
(***************************************************************************)
Max(a, b) == IF a > b THEN a ELSE b

BatchIds == 0..(Max(NumEntities, NumRelations) - 1)

\* The batches of the model: up to MaxBatch rows of two ids, cut to their
\* first column (1 column) or extended by a column of zeros (3 columns).
BatchWidths == {1, 2, 3}

Reshape(rows, w) ==
    [ncols |-> w,
     rows |-> [i \in 1..Len(rows) |->
                 IF w = 1 THEN <<rows[i][1]>>
                 ELSE IF w = 2 THEN rows[i]
                 ELSE <<rows[i][1], rows[i][2], 0>>]]

Batches == {Reshape(rows, w) : rows \in SeqsUpTo(BatchIds \X BatchIds, MaxBatch), w \in BatchWidths}

\* hrt_batch has three columns and ht_batch two.
BatchesOfWidth(w) == {batch \in Batches : batch.ncols = w}

BatchLen(batch) == Len(batch.rows)

(***************************************************************************)
(* Sparse algebra used by the models.                                      *)
(***************************************************************************)
\* matrix[index]: the rows named by an index array, as a new matrix.
SelectRows(M, index) ==
    [nrows |-> Len(index), ncols |-> M.ncols,
     data |-> [p \in {q \in (0..(Len(index) - 1)) \X (0..(M.ncols - 1)) :
                        <<index[q[1] + 1], q[2]>> \in Stored(M)} |->
                 M.data[<<index[p[1] + 1], p[2]>>]]]

\* A @ B for two CSR matrices: only stored entries are multiplied, so a stored
\* inf or nan that meets an entry that is not stored contributes nothing.
SparseMatMul(A, B) ==
    LET mids(p) == {k \in 0..(A.ncols - 1) : <<p[1], k>> \in Stored(A) /\ <<k, p[2]>> \in Stored(B)}
        RECURSIVE SumOver(_, _)
        SumOver(p, ks) ==
            IF ks = {} THEN Zero
            ELSE LET k == CHOOSE x \in ks : \A y \in ks : x <= y
                 IN  FAdd(FMul(A.data[<<p[1], k>>], B.data[<<k, p[2]>>]), SumOver(p, ks \ {k}))
    IN  [nrows |-> A.nrows, ncols |-> B.ncols,
         data |-> [p \in {q \in (0..(A.nrows - 1)) \X (0..(B.ncols - 1)) : mids(q) # {}} |->
                     SumOver(p, mids(p))]]

\* A + B for two CSR matrices.
SparseAdd(A, B) ==
    [nrows |-> A.nrows, ncols |-> A.ncols,
     data |-> [p \in Stored(A) \cup Stored(B) |-> FAdd(Get(A, p[1], p[2]), Get(B, p[1], p[2]))]]

\* todense(): the matrix as a sequence of dense rows.
ToDense(M) == [i \in 1..M.nrows |-> DenseRow(M, i - 1)]

\* batch[:, c] as an index into a matrix with `size` rows: the column must
\* exist and every index must be in range.
BatchColumn(batch, c) == [i \in 1..BatchLen(batch) |-> batch.rows[i][c + 1]]

ColumnReadable(batch, c, size) ==
    /\ c < batch.ncols
    /\ \A i \in 1..BatchLen(batch) : batch.rows[i][c + 1] \in 0..(size - 1)

\* torch.from_numpy(M[batch[:, c]].todense())
ScoreRows(M, batch, c) ==
    IF ~ColumnReadable(batch, c, M.nrows) THEN Raised("IndexError")
    ELSE Returned(ToDense(SelectRows(M, BatchColumn(batch, c))))

(***************************************************************************)
(* EvaluationOnlyModel and the three baselines.                            *)
(***************************************************************************)
\* A score_hrt that scores instead of refusing.
EvaluationOnlyModel_score_hrt_scores(hrt_batch) ==
    Returned([i \in 1..BatchLen(hrt_batch) |-> Zero])

EvaluationOnlyModel_score_hrt(hrt_batch) == Raised("NotImplementedError")

EvaluationOnlyModel_score_r(ht_batch) == Raised("NotImplementedError")

PseudoTypeBaseline(tf, normalize) ==
    [cls |-> "PseudoTypeBaseline",
     head_per_relation |-> _get_csr_matrix(tf, 0, 1, normalize).value,
     tail_per_relation |-> _get_csr_matrix(tf, 2, 1, normalize).value,
     normalize |-> normalize]

\* A score_t that indexes by the head column instead of the relation column.
PseudoTypeBaseline_score_t_by_head(self, hr_batch) == ScoreRows(self.tail_per_relation, hr_batch, 0)

PseudoTypeBaseline_score_t(self, hr_batch) == ScoreRows(self.tail_per_relation, hr_batch, 1)

PseudoTypeBaseline_score_h(self, rt_batch) == ScoreRows(self.head_per_relation, rt_batch, 0)

EntityCoOccurrenceBaseline(tf, normalize) ==
    [cls |-> "EntityCoOccurrenceBaseline",
     head_per_tail |-> _get_csr_matrix(tf, 0, 2, normalize).value,
     tail_per_head |-> _get_csr_matrix(tf, 2, 0, normalize).value,
     normalize |-> normalize]

\* A score_t that indexes by the relation column instead of the head column.
EntityCoOccurrenceBaseline_score_t_by_relation(self, hr_batch) ==
    ScoreRows(self.tail_per_head, hr_batch, 1)

EntityCoOccurrenceBaseline_score_t(self, hr_batch) == ScoreRows(self.tail_per_head, hr_batch, 0)

EntityCoOccurrenceBaseline_score_h(self, rt_batch) == ScoreRows(self.head_per_tail, rt_batch, 1)

SoftInverseTripleBaseline(tf, threshold) ==
    [cls |-> "SoftInverseTripleBaseline",
     sim |-> _get_relation_similarity(tf, FALSE, threshold).value,
     sim_inv |-> _get_relation_similarity(tf, TRUE, threshold).value,
     rel_to_head |-> coo_tocsr(ones(num_triples(tf)), Column(tf.mapped_triples, 1),
                               Column(tf.mapped_triples, 0), tf.num_relations, tf.num_entities),
     rel_to_tail |-> coo_tocsr(ones(num_triples(tf)), Column(tf.mapped_triples, 1),
                               Column(tf.mapped_triples, 2), tf.num_relations, tf.num_entities)]

\* self.sim[r, :] @ first + self.sim_inv[r, :] @ second, made dense
SoftInverseScores(self, batch, c, first, second) ==
    IF ~ColumnReadable(batch, c, self.sim.nrows) THEN Raised("IndexError")
    ELSE LET r == BatchColumn(batch, c)
         IN  Returned(ToDense(SparseAdd(SparseMatMul(SelectRows(self.sim, r), first),
                                        SparseMatMul(SelectRows(self.sim_inv, r), second))))

SoftInverseTripleBaseline_score_t(self, hr_batch) ==
    SoftInverseScores(self, hr_batch, 1, self.rel_to_tail, self.rel_to_head)

SoftInverseTripleBaseline_score_h(self, rt_batch) ==
    SoftInverseScores(self, rt_batch, 0, self.rel_to_head, self.rel_to_tail)

\* Method dispatch on the class of the model.
score_t(self, hr_batch) ==
    CASE self.cls = "PseudoTypeBaseline" -> PseudoTypeBaseline_score_t(self, hr_batch)
      [] self.cls = "EntityCoOccurrenceBaseline" -> EntityCoOccurrenceBaseline_score_t(self, hr_batch)
      [] self.cls = "SoftInverseTripleBaseline" -> SoftInverseTripleBaseline_score_t(self, hr_batch)

score_h(self, rt_batch) ==
    CASE self.cls = "PseudoTypeBaseline" -> PseudoTypeBaseline_score_h(self, rt_batch)
      [] self.cls = "EntityCoOccurrenceBaseline" -> EntityCoOccurrenceBaseline_score_h(self, rt_batch)
      [] self.cls = "SoftInverseTripleBaseline" -> SoftInverseTripleBaseline_score_h(self, rt_batch)

(***************************************************************************)
(* The models as objects of a caller: construction and the four scoring    *)
(* methods of the Model interface.                                         *)
(***************************************************************************)
NewPseudoTypeBaseline ==
    /\ pc = "idle"
    /\ model = NoModel
    /\ \E normalize \in BOOLEAN : model' = PseudoTypeBaseline(triples_factory, normalize)
    /\ UNCHANGED <<triples_factory, pc, call, result, harness, analysis>>

NewEntityCoOccurrenceBaseline ==
    /\ pc = "idle"
    /\ model = NoModel
    /\ \E normalize \in BOOLEAN : model' = EntityCoOccurrenceBaseline(triples_factory, normalize)
    /\ UNCHANGED <<triples_factory, pc, call, result, harness, analysis>>

NewSoftInverseTripleBaseline ==
    /\ pc = "idle"
    /\ model = NoModel
    /\ triples_factory.num_entities * triples_factory.num_relations < IntMax
    /\ \E threshold \in Thresholds : model' = SoftInverseTripleBaseline(triples_factory, threshold)
    /\ UNCHANGED <<triples_factory, pc, call, result, harness, analysis>>

Score(op, batch, outcome) ==
    /\ call' = [op |-> op, batch |-> batch]
    /\ result' = outcome
    /\ pc' = "called"
    /\ UNCHANGED <<triples_factory, model, harness, analysis>>

ScoreT ==
    /\ pc = "idle"
    /\ model # NoModel
    /\ \E batch \in Batches : Score("score_t", batch, score_t(model, batch))

ScoreH ==
    /\ pc = "idle"
    /\ model # NoModel
    /\ \E batch \in Batches : Score("score_h", batch, score_h(model, batch))

ScoreHrt ==
    /\ pc = "idle"
    /\ model # NoModel
    /\ \E batch \in BatchesOfWidth(3) :
        Score("score_hrt", batch, EvaluationOnlyModel_score_hrt(batch))

ScoreR ==
    /\ pc = "idle"
    /\ model # NoModel
    /\ \E batch \in BatchesOfWidth(2) :
        Score("score_r", batch, EvaluationOnlyModel_score_r(batch))

ScoreNext ==
    \/ NewPseudoTypeBaseline
    \/ NewEntityCoOccurrenceBaseline
    \/ NewSoftInverseTripleBaseline
    \/ ScoreT
    \/ ScoreH
    \/ ScoreHrt
    \/ ScoreR
    \/ Return

ScoreInit ==
    /\ triples_factory \in ModelFactories
    /\ model = NoModel
    /\ pc = "idle"
    /\ call = NoCall
    /\ result = NoResult
    /\ harness = IdleHarness
    /\ analysis = NoAnalysis

ScoreSpec == ScoreInit /\ [][ScoreNext]_vars

(***************************************************************************)
(* BenchmarkHarness: _build and _run_trials.                               *)
(*                                                                         *)
(* The module has to load first: the def of _build names Union in an       *)
(* annotation, and the module does not import it.                          *)
(*                                                                         *)
(* _build hands every (dataset, (model, kwargs)) unit to process_map,      *)
(* which submits the units one by one to a pool of worker processes and    *)
(* then iterates over their results.  A unit fails when its dataset cannot *)
(* be loaded, or in its first trial when its dataset has no validation     *)
(* triples.  From the first submission on the pool hands                   *)
(* the submitted units, in submission order, to its call queue (as many as *)
(* there are workers, and one more), from which the workers take them.     *)
(* process_map yields the return values in submission order.  When the     *)
(* unit whose turn it is has raised, the units not yet handed to the call  *)
(* queue are cancelled one by one, from the last one down, the pool is     *)
(* shut down waiting for every unit it was handed, and then the exception  *)
(* leaves _build.  The rows are chained into the table only after          *)
(* process_map has returned.                                               *)
(***************************************************************************)
NumDatasets == 2
MaxTrials == 2
MaxWorkers == 2

Datasets == 1..NumDatasets

\* models_kwargs of _build
models_kwargs ==
    <<[model_cls |-> "PseudoTypeBaseline", kwargs |-> [normalize |-> "True"]],
      [model_cls |-> "EntityCoOccurrenceBaseline", kwargs |-> [normalize |-> "True"]],
      [model_cls |-> "SoftInverseTripleBaseline", kwargs |-> [threshold |-> "0.97"]]>>

\* sorted({k for _, d in models_kwargs for k in d})
kwargs_keys == <<"normalize", "threshold">>

METRICS == <<"mrr", "iamr", "igmr", "hits@1", "hits@5", "hits@10", "hits@50", "hits@100",
             "aamr", "aamri">>

columns ==
    <<"dataset", "entities", "relations", "triples", "trial", "model">>
        \o kwargs_keys \o <<"time">> \o METRICS

\* itt.product(datasets, models_kwargs): unit u (1-based) in submission order.
NumUnits == NumDatasets * Len(models_kwargs)
Units == 1..NumUnits
UnitDataset(u) == ((u - 1) \div Len(models_kwargs)) + 1
UnitConfig(u) == models_kwargs[((u - 1) % Len(models_kwargs)) + 1]

\* model_cls.__name__[:-len('Baseline')]
ModelName(cls) ==
    CASE cls = "PseudoTypeBaseline" -> "PseudoType"
      [] cls = "EntityCoOccurrenceBaseline" -> "EntityCoOccurrence"
      [] cls = "SoftInverseTripleBaseline" -> "SoftInverseTriple"

\* model_kwargs.get(key)
KwargsGet(kwargs, key) == IF key \in DOMAIN kwargs THEN kwargs[key] ELSE "None"

\* dataset_cls(): the dataset with the split it ships with.
dataset_cls(d) == [dataset |-> d, remixed |-> FALSE, random_state |-> 0]

\* dataset.remix(random_state=...): a train/validation/test partition of the
\* triples of the dataset, re-derived with the given random seed.
remix(dataset, random_state) ==
    [dataset |-> dataset.dataset, remixed |-> TRUE, random_state |-> random_state]

\* A loop body that seeds the resplit with the number of trials the units of
\* the pool have run so far.
trial_dataset_pool_seed(dataset, trials, trial) ==
    IF trials # 0
    THEN remix(dataset, Cardinality({t \in Units \X (1..MaxTrials) :
                                        t[2] <= harness.units[t[1]].trial}))
    ELSE dataset

\* The dataset a trial evaluates on.
trial_dataset(dataset, trials, trial) ==
    IF trials # 0 THEN remix(dataset, trial) ELSE dataset

\* The record _run_trials appends for one trial.  The elapsed time is whatever
\* the clock gave, and each metric is whatever the evaluation of the model on
\* the dataset of the trial gave for it.
TrialRecord(u, trial) ==
    LET d == UnitDataset(u)
        cfg == UnitConfig(u)
    IN  <<[dataset |-> d], [num_entities |-> d], [num_relations |-> d], [num_triples |-> d],
          [trial |-> trial], [model |-> ModelName(cfg.model_cls)]>>
        \o [k \in 1..Len(kwargs_keys) |-> [kwarg |-> KwargsGet(cfg.kwargs, kwargs_keys[k])]]
        \o <<[elapsed_seconds |-> "time"]>>
        \o [k \in 1..Len(METRICS) |-> [metric |-> METRICS[k]]]

\* What a dataset class of the resolver gives: a dataset with training,
\* validation and testing triples, one without validation triples, or an
\* exception from dataset_cls().
DatasetKinds == {"complete", "no_validation", "unloadable"}

\* A unit before process_map has submitted it.
NoUnit == [status |-> "none", trial |-> 0, trial_datasets |-> <<>>, records |-> <<>>]

\* A unit submitted to the pool.
PendingUnit == [status |-> "pending", trial |-> 0, trial_datasets |-> <<>>, records |-> <<>>]

\* The module is about to be executed.  Whether the annotations of a def are
\* evaluated when the def statement runs depends on the interpreter (they are
\* up to Python 3.13, and are not from 3.14 on).
HarnessInit ==
    /\ triples_factory = [num_entities |-> NumEntities, num_relations |-> NumRelations,
                          mapped_triples |-> <<>>]
    /\ model = NoModel
    /\ pc = "idle"
    /\ call = NoCall
    /\ result = NoResult
    /\ analysis = NoAnalysis
    /\ \E trials \in 0..MaxTrials, kind \in [Datasets -> DatasetKinds],
          annotations \in {"eager", "deferred"} :
        harness = [phase |-> "module",
                   annotations |-> annotations,
                   trials |-> trials,
                   kind |-> kind,
                   units |-> [u \in Units |-> NoUnit],
                   submitted |-> 0,
                   collected |-> 0,
                   cancel |-> 0,
                   it |-> <<>>,
                   df |-> <<>>]

\* The def statement of _build runs.  With eager annotations Union[str, Path]
\* is evaluated and raises NameError: the module does not load, and _build,
\* _run_trials and _evaluate_baseline are never defined.
DefBuild ==
    /\ harness.phase = "module"
    /\ harness' = [harness EXCEPT
                      !.phase = IF harness.annotations = "eager" THEN "NameError" ELSE "loaded"]
    /\ UNCHANGED <<triples_factory, model, pc, call, result, analysis>>

\* _build is called and reaches process_map, which starts the pool.
CallBuild ==
    /\ harness.phase = "loaded"
    /\ harness' = [harness EXCEPT !.phase = "process_map"]
    /\ UNCHANGED <<triples_factory, model, pc, call, result, analysis>>

\* process_map submits the next unit; the pool and its workers are at work
\* on the units submitted before it.
Submit ==
    /\ harness.phase = "process_map"
    /\ harness.submitted < NumUnits
    /\ harness' = [harness EXCEPT !.submitted = @ + 1,
                                  !.units[harness.submitted + 1] = PendingUnit]
    /\ UNCHANGED <<triples_factory, model, pc, call, result, analysis>>

\* Every unit is submitted: process_map iterates over the results.
Iterating == harness.phase = "process_map" /\ harness.submitted = NumUnits

Queued == {u \in Units : harness.units[u].status = "queued"}

Running == {u \in Units : harness.units[u].status = "running"}

\* The pool is at work: until the exception leaves _build or the table is built.
PoolAtWork == harness.phase \in {"process_map", "cancelling"}

\* The pool hands the next submitted unit to its call queue, which holds one
\* unit more than there are workers; from then on the unit cannot be cancelled.
Enqueue(u) ==
    /\ PoolAtWork
    /\ harness.units[u].status = "pending"
    /\ \A v \in Units : v < u => harness.units[v].status # "pending"
    /\ Cardinality(Queued) < MaxWorkers + 1
    /\ harness' = [harness EXCEPT !.units[u].status = "queued"]
    /\ UNCHANGED <<triples_factory, model, pc, call, result, analysis>>

\* A worker process takes the next unit of the call queue and calls
\* _run_trials on it: dataset_cls() loads the dataset, or raises.
StartUnit(u) ==
    /\ PoolAtWork
    /\ harness.units[u].status = "queued"
    /\ \A v \in Units : v < u => harness.units[v].status # "queued"
    /\ Cardinality(Running) < MaxWorkers
    /\ harness' = [harness EXCEPT !.units[u].status =
                      IF harness.kind[UnitDataset(u)] = "unloadable" THEN "failed"
                      ELSE "running"]
    /\ UNCHANGED <<triples_factory, model, pc, call, result, analysis>>

\* One iteration of the loop over the trials of a unit: trial_dataset is
\* assigned (trial_datasets keeps the value of every iteration), the model is
\* built and evaluated, and the record is appended.  _evaluate_baseline
\* asserts that the dataset has validation triples: without them the trial
\* raises AssertionError before a record is appended, and the unit fails.
RunTrial(u) ==
    /\ PoolAtWork
    /\ harness.units[u].status = "running"
    /\ harness.units[u].trial < harness.trials
    /\ LET trial == harness.units[u].trial
           this_dataset == trial_dataset(dataset_cls(UnitDataset(u)), harness.trials, trial)
       IN  harness' =
              IF harness.kind[UnitDataset(u)] = "no_validation"
              THEN [harness EXCEPT
                       !.units[u].trial_datasets = Append(@, this_dataset),
                       !.units[u].status = "failed"]
              ELSE [harness EXCEPT
                       !.units[u].trial_datasets = Append(@, this_dataset),
                       !.units[u].records = Append(@, TrialRecord(u, trial)),
                       !.units[u].trial = @ + 1]
    /\ UNCHANGED <<triples_factory, model, pc, call, result, analysis>>

\* return records
FinishUnit(u) ==
    /\ PoolAtWork
    /\ harness.units[u].status = "running"
    /\ harness.units[u].trial = harness.trials
    /\ harness' = [harness EXCEPT !.units[u].status = "done"]
    /\ UNCHANGED <<triples_factory, model, pc, call, result, analysis>>

\* process_map yields the return value of the next unit in submission order.
Collect ==
    /\ Iterating
    /\ harness.collected < NumUnits
    /\ harness.units[harness.collected + 1].status = "done"
    /\ harness' = [harness EXCEPT
                      !.collected = @ + 1,
                      !.it = Append(@, harness.units[harness.collected + 1].records)]
    /\ UNCHANGED <<triples_factory, model, pc, call, result, analysis>>

\* The next unit in submission order raised: asking for its result raises
\* its exception in process_map, which starts to cancel the units after it.
RaiseInMap ==
    /\ Iterating
    /\ harness.collected < NumUnits
    /\ harness.units[harness.collected + 1].status = "failed"
    /\ harness' = [harness EXCEPT !.phase = "cancelling", !.cancel = NumUnits]
    /\ UNCHANGED <<triples_factory, model, pc, call, result, analysis>>

\* future.cancel() of one unit, from the last unit down: it cancels a unit
\* the pool has not handed to its call queue, and does nothing to any other.
CancelFuture ==
    /\ harness.phase = "cancelling"
    /\ harness.cancel > harness.collected + 1
    /\ harness' = [harness EXCEPT
                      !.cancel = @ - 1,
                      !.units[harness.cancel].status =
                          IF @ = "pending" THEN "cancelled" ELSE @]
    /\ UNCHANGED <<triples_factory, model, pc, call, result, analysis>>

\* The pool is shut down, waiting for every unit it was handed; then the
\* exception leaves process_map and _build, and no table is built.
Propagate ==
    /\ harness.phase = "cancelling"
    /\ harness.cancel = harness.collected + 1
    /\ Queued = {}
    /\ Running = {}
    /\ harness' = [harness EXCEPT !.phase = "raised"]
    /\ UNCHANGED <<triples_factory, model, pc, call, result, analysis>>

\* A table made of the rows of the first unit only.
Chain_first(lists) == IF lists = <<>> THEN <<>> ELSE Head(lists)

RECURSIVE Chain(_)
Chain(lists) == IF lists = <<>> THEN <<>> ELSE Head(lists) \o Chain(Tail(lists))

\* rows = list(itt.chain.from_iterable(it)); df = pd.DataFrame(rows, columns)
BuildTable ==
    /\ Iterating
    /\ harness.collected = NumUnits
    /\ harness' = [harness EXCEPT !.phase = "returned", !.df = Chain(harness.it)]
    /\ UNCHANGED <<triples_factory, model, pc, call, result, analysis>>

HarnessNext ==
    \/ DefBuild
    \/ CallBuild
    \/ Submit
    \/ \E u \in Units : Enqueue(u)
    \/ \E u \in Units : StartUnit(u)
    \/ \E u \in Units : RunTrial(u)
    \/ \E u \in Units : FinishUnit(u)
    \/ Collect
    \/ RaiseInMap
    \/ CancelFuture
    \/ Propagate
    \/ BuildTable

HarnessSpec == HarnessInit /\ [][HarnessNext]_vars

(***************************************************************************)
(* ExpectedMetricEvaluator: the expected_metrics command of                *)
(* src/src/pykeen/datasets/cli.py.  For every dataset that matches the     *)
(* pattern it computes the candidate set sizes of every split, writes them *)
(* to a file, derives the expected metrics of the three sides from them    *)
(* and, after the last split, writes the metrics of the dataset to         *)
(* expected_metrics.json.  The candidate set sizes and the two metric      *)
(* functions are computed outside this file: the model keeps, for each     *)
(* value, which function produced it from which arguments.                 *)
(***************************************************************************)
\* A dict as a function on its keys.
EmptyDict == <<>>

DictSet(d, key, value) == [x \in DOMAIN d \cup {key} |-> IF x = key THEN value ELSE d[x]]

\* get_dataset(dataset=dataset_cls): the instance, with or without validation triples
get_dataset(d, has_validation) == [name |-> d, validation |-> has_validation]

\* dataset_instance.factory_dict: the splits the dataset has, by name.
factory_dict(dataset_instance) ==
    IF dataset_instance.validation THEN <<"training", "testing", "validation">>
    ELSE <<"training", "testing">>

\* A filter for the testing split that leaves the validation triples out.
additional_filter_triples_training_only(dataset_instance, key) ==
    IF key = "training" THEN <<>> ELSE <<"training">>

\* The splits whose triples filter the candidates of split `key` (<<>>: None).
additional_filter_triples(dataset_instance, key) ==
    CASE key = "training" -> <<>>
      [] key = "validation" -> <<"training">>
      [] key = "testing" ->
            IF dataset_instance.validation THEN <<"training", "validation">>
            ELSE <<"training">>

\* get_candidate_set_size(mapped_triples=..., additional_filter_triples=...):
\* the data frame with a head_candidates and a tail_candidates column.
get_candidate_set_size(dataset_instance, key, filter) ==
    [dataset |-> dataset_instance.name, mapped_triples |-> key,
     additional_filter_triples |-> filter]

\* No data frame at hand.
NoFrame == [dataset |-> 0, mapped_triples |-> "", additional_filter_triples |-> <<>>]

\* dict(head=["head"], tail=["tail"], both=["head", "tail"])
labels == <<"head", "tail", "both">>

sides(label) ==
    CASE label = "head" -> <<"head">>
      [] label = "tail" -> <<"tail">>
      [] label = "both" -> <<"head", "tail">>

\* df[[f"{side}_candidates" for side in sides]]
candidate_set_sizes(df, label) == [df |-> df, columns |-> sides(label)]

expected_mean_rank(sizes) == [fn |-> "expected_mean_rank", k |-> 0, candidate_set_sizes |-> sizes]

expected_hits_at_k(sizes, k) == [fn |-> "expected_hits_at_k", k |-> k, candidate_set_sizes |-> sizes]

\* for k in (1, 3, 5, 10): f"hits_at_{k}"
hits_at ==
    [name \in {"hits_at_1", "hits_at_3", "hits_at_5", "hits_at_10"} |->
        CASE name = "hits_at_1" -> 1
          [] name = "hits_at_3" -> 3
          [] name = "hits_at_5" -> 5
          [] name = "hits_at_10" -> 10]

\* this_metrics of one split
this_metrics(df) ==
    [label \in {labels[i] : i \in 1..Len(labels)} |->
        [name \in {"mean_rank"} \cup DOMAIN hits_at |->
            IF name = "mean_rank" THEN expected_mean_rank(candidate_set_sizes(df, label))
            ELSE expected_hits_at_k(candidate_set_sizes(df, label), hits_at[name])]]

\* The elements of a set of numbers in increasing order.
RECURSIVE Sorted(_)
Sorted(S) ==
    IF S = {} THEN <<>>
    ELSE LET x == CHOOSE y \in S : \A z \in S : y <= z
         IN  <<x>> \o Sorted(S \ {x})

\* An expected_metrics.json left in the directory of a dataset by something
\* else than this run.
StaleRecord == [key \in {"training"} |-> EmptyDict]

\* The command starts: _iter_datasets yields the datasets whose name matches
\* the pattern, ordered by their number of triples.
MetricsInit ==
    /\ triples_factory = [num_entities |-> NumEntities, num_relations |-> NumRelations,
                          mapped_triples |-> <<>>]
    /\ model = NoModel
    /\ pc = "idle"
    /\ call = NoCall
    /\ result = NoResult
    /\ harness = IdleHarness
    /\ \E matched \in SUBSET Datasets, has_validation \in [Datasets -> BOOLEAN],
          stale \in SUBSET Datasets :
        analysis = [phase |-> "expected_metrics",
                    datasets |-> [i \in 1..Cardinality(matched) |->
                                    get_dataset(Sorted(matched)[i], has_validation[Sorted(matched)[i]])],
                    current |-> 1,           \* the dataset of the outer loop
                    loaded |-> FALSE,        \* its instance is loaded and its directory made
                    split |-> 0,             \* the splits of it that are done
                    df |-> NoFrame,          \* the candidate set sizes of the split at hand
                    expected_metrics |-> EmptyDict,
                    candidates |-> {},       \* the <key>_candidates.tsv.gz files written
                    \* the expected_metrics.json files, by dataset
                    json |-> [d \in stale |-> StaleRecord]]

\* dataset_instance = get_dataset(...); d.mkdir(...); expected_metrics = dict()
GetDataset ==
    /\ analysis.phase = "expected_metrics"
    /\ analysis.current <= Len(analysis.datasets)
    /\ ~analysis.loaded
    /\ analysis' = [analysis EXCEPT !.loaded = TRUE, !.split = 0, !.expected_metrics = EmptyDict]
    /\ UNCHANGED <<triples_factory, model, pc, call, result, harness>>

\* The first half of an iteration of the loop over factory_dict.items(): the
\* filter triples of the split, its candidate set sizes and their file.
WriteCandidates ==
    /\ analysis.phase = "expected_metrics"
    /\ analysis.current <= Len(analysis.datasets)
    /\ analysis.loaded
    /\ analysis.df = NoFrame
    /\ LET dataset_instance == analysis.datasets[analysis.current]
           keys == factory_dict(dataset_instance)
       IN  /\ analysis.split < Len(keys)
           /\ LET key == keys[analysis.split + 1]
              IN  analysis' = [analysis EXCEPT
                      !.df = get_candidate_set_size(dataset_instance, key,
                                 additional_filter_triples(dataset_instance, key)),
                      !.candidates = @ \cup {<<dataset_instance.name, key>>}]
    /\ UNCHANGED <<triples_factory, model, pc, call, result, harness>>

\* The second half: the metrics of the three sides, stored under the split.
EvaluateSplit ==
    /\ analysis.phase = "expected_metrics"
    /\ analysis.df # NoFrame
    /\ LET dataset_instance == analysis.datasets[analysis.current]
           key == factory_dict(dataset_instance)[analysis.split + 1]
       IN  analysis' = [analysis EXCEPT
               !.split = @ + 1,
               !.df = NoFrame,
               !.expected_metrics = DictSet(@, key, this_metrics(analysis.df))]
    /\ UNCHANGED <<triples_factory, model, pc, call, result, harness>>

\* json.dump(expected_metrics, file, sort_keys=True, indent=4); the outer loop
\* moves to the next dataset.
DumpMetrics ==
    /\ analysis.phase = "expected_metrics"
    /\ analysis.current <= Len(analysis.datasets)
    /\ analysis.loaded
    /\ LET dataset_instance == analysis.datasets[analysis.current]
       IN  /\ analysis.split = Len(factory_dict(dataset_instance))
           /\ analysis' = [analysis EXCEPT
                  !.json = DictSet(@, dataset_instance.name, analysis.expected_metrics),
                  !.current = @ + 1,
                  !.loaded = FALSE]
    /\ UNCHANGED <<triples_factory, model, pc, call, result, harness>>

\* The loop over the datasets is exhausted: the command returns.
ExitCommand ==
    /\ analysis.phase = "expected_metrics"
    /\ analysis.current > Len(analysis.datasets)
    /\ analysis' = [analysis EXCEPT !.phase = "done"]
    /\ UNCHANGED <<triples_factory, model, pc, call, result, harness>>

MetricsNext == GetDataset \/ WriteCandidates \/ EvaluateSplit \/ DumpMetrics \/ ExitCommand

MetricsSpec == MetricsInit /\ [][MetricsNext]_vars

(***************************************************************************)
(* Properties of the builders.                                             *)
(***************************************************************************)
CsrCalled(normalize) ==
    /\ pc = "called"
    /\ call.op = "_get_csr_matrix"
    /\ call.row_index # call.col_index
    /\ call.normalize = normalize

\* The number of triples with value i in column row_index and j in column col_index.
CountPairs(ts, row_index, col_index, i, j) ==
    Cardinality({k \in 1..Len(ts) : Col(ts[k], row_index) = i /\ Col(ts[k], col_index) = j})

Total(M) == FSum([a \in 1..M.nrows |-> RowSum(M, a - 1)])

\* C1: for every triple set and every pair of distinct roles, entry (i, j) of
\* the unnormalized matrix of _get_csr_matrix is the number of triples with
\* row-role value i and col-role value j (duplicates accumulate), a position is
\* stored only if some triple has it, and the entries sum to num_triples.
C1_CountsAccumulate ==
    CsrCalled(FALSE) =>
        /\ result.status = "returned"
        /\ LET M == result.value
               ts == triples_factory.mapped_triples
           IN  /\ M.nrows = _get_max_id(triples_factory, call.row_index)
               /\ M.ncols = _get_max_id(triples_factory, call.col_index)
               /\ \A i \in 0..(M.nrows - 1), j \in 0..(M.ncols - 1) :
                    Get(M, i, j) = FromInt(CountPairs(ts, call.row_index, call.col_index, i, j))
               /\ \A p \in Stored(M) :
                    CountPairs(ts, call.row_index, call.col_index, p[1], p[2]) > 0
               /\ Total(M) = FromInt(num_triples(triples_factory))

\* C1 witness: an unnormalized matrix built from a triple set that holds the
\* same triple twice, whose entry for that pair is 2.
C1_Witness ==
    /\ CsrCalled(FALSE)
    /\ result.status = "returned"
    /\ \E k1, k2 \in 1..num_triples(triples_factory) :
        /\ k1 # k2
        /\ triples_factory.mapped_triples[k1] = triples_factory.mapped_triples[k2]
    /\ \E p \in Stored(result.value) : result.value.data[p] = FromInt(2)

RowOccurs(ts, row_index, i) == \E k \in 1..Len(ts) : Col(ts[k], row_index) = i

\* C2: with normalize set, every row of the matrix sums to 1 or is all-zero, a
\* row is all-zero exactly when its index never occurs in the row role of a
\* triple, and no entry is a non-finite value (nothing was divided by zero).
C2_NormalizedRows ==
    CsrCalled(TRUE) =>
        /\ result.status = "returned"
        /\ LET M == result.value
               ts == triples_factory.mapped_triples
           IN  /\ \A p \in Stored(M) : IsFinite(M.data[p])
               /\ \A i \in 0..(M.nrows - 1) :
                    LET allZero == \A j \in 0..(M.ncols - 1) : Get(M, i, j) = Zero
                    IN  /\ RowSum(M, i) = One \/ allZero
                        /\ allZero <=> ~RowOccurs(ts, call.row_index, i)

\* C2 witness: a normalized matrix with an all-zero row and a row that holds
\* two entries below 1.
C2_Witness ==
    /\ CsrCalled(TRUE)
    /\ result.status = "returned"
    /\ LET M == result.value
       IN  /\ \E i \in 0..(M.nrows - 1) : \A j \in 0..(M.ncols - 1) : Get(M, i, j) = Zero
           /\ \E p \in Stored(M) : M.data[p] = <<1, 2>>

SimCalled(to_inverse) ==
    /\ pc = "called"
    /\ call.op = "_get_relation_similarity"
    /\ call.to_inverse = to_inverse
    /\ result.status = "returned"

RelationObserved(ts, r) == \E k \in 1..Len(ts) : Col(ts[k], 1) = r

\* C3: for any relation r that occurs in a triple of the input (duplicates
\* allowed), the non-inverse similarity matrix has sim[r, r] = 1.
C3_SelfSimilarityIsOne ==
    SimCalled(FALSE) =>
        \A r \in 0..(triples_factory.num_relations - 1) :
            RelationObserved(triples_factory.mapped_triples, r) => Get(result.value, r, r) = One

\* C4: for every triple set, both orientations and every threshold, every
\* stored entry of the similarity matrix lies in [threshold, 1], in (0, 1] when
\* no threshold is configured.
C4_StoredEntriesInRange ==
    SimCalled(call.to_inverse) =>
        \A p \in Stored(result.value) :
            LET v == result.value.data[p]
            IN  /\ FLeq(v, One)
                /\ IF call.threshold.given THEN FLeq(call.threshold.value, v)
                   ELSE FLess(Zero, v)

(***************************************************************************)
(* Properties of the baseline models.                                      *)
(***************************************************************************)
Scored(cls, op) ==
    /\ pc = "called"
    /\ model.cls = cls
    /\ call.op = op

\* A batch of the shape the evaluator passes: two columns, ids in range.
WellFormed(batch) == batch.ncols = 2

\* The batch with column c of every row replaced by x.
WithColumn(batch, c, x) ==
    [batch EXCEPT !.rows = [i \in 1..BatchLen(batch) |-> [batch.rows[i] EXCEPT ![c + 1] = x]]]

\* Row i of the co-occurrence matrix of (row_index -> col_index), from the
\* triples: counts, or counts divided by their sum when normalized.
CooccurrenceRow(tf, row_index, col_index, normalize, i) ==
    LET ts == tf.mapped_triples
        total == Cardinality({k \in 1..Len(ts) : Col(ts[k], row_index) = i})
    IN  [c \in 1.._get_max_id(tf, col_index) |->
            LET n == CountPairs(ts, row_index, col_index, i, c - 1)
            IN  IF normalize /\ total > 0 THEN Frac(n, total) ELSE FromInt(n)]

\* What a lookup baseline must return: for every batch row, the row of the
\* co-occurrence matrix named by the key column, whatever the other column is.
LooksUp(batch, key, row_index, col_index, others, rescored(_)) ==
    /\ result.status = "returned"
    /\ Len(result.value) = BatchLen(batch)
    /\ \A i \in 1..BatchLen(batch) :
        result.value[i] = CooccurrenceRow(triples_factory, row_index, col_index,
                                          model.normalize, batch.rows[i][key + 1])
    /\ \A x \in others : rescored(WithColumn(batch, 1 - key, x)) = result

\* C5: PseudoTypeBaseline.score_t returns, for each batch row (h, r), row r of
\* the relation->tail co-occurrence matrix, the same for every head; score_h
\* returns row r of the relation->head matrix, the same for every tail.
C5_PseudoTypeLooksUpRelation ==
    /\ Scored("PseudoTypeBaseline", "score_t") /\ WellFormed(call.batch) =>
        LET rescored(b) == score_t(model, b)
        IN  LooksUp(call.batch, 1, 1, 2, Entities, rescored)
    /\ Scored("PseudoTypeBaseline", "score_h") /\ WellFormed(call.batch) =>
        LET rescored(b) == score_h(model, b)
        IN  LooksUp(call.batch, 0, 1, 0, Entities, rescored)

\* C5 witness: score_t of a pseudo-type baseline answered a query whose head
\* differs from its relation with a row that holds a non-zero score.
C5_Witness ==
    /\ Scored("PseudoTypeBaseline", "score_t")
    /\ WellFormed(call.batch)
    /\ result.status = "returned"
    /\ \E i \in 1..BatchLen(call.batch) :
        /\ call.batch.rows[i][1] # call.batch.rows[i][2]
        /\ \E e \in 1..Len(result.value[i]) : result.value[i][e] # Zero

\* C6: EntityCoOccurrenceBaseline.score_t returns, for each batch row (h, r),
\* row h of the head->tail co-occurrence matrix, the same for every relation;
\* score_h returns row t of the tail->head matrix, the same for every relation.
C6_EntityCoOccurrenceLooksUpEntity ==
    /\ Scored("EntityCoOccurrenceBaseline", "score_t") /\ WellFormed(call.batch) =>
        LET rescored(b) == score_t(model, b)
        IN  LooksUp(call.batch, 0, 0, 2, Relations, rescored)
    /\ Scored("EntityCoOccurrenceBaseline", "score_h") /\ WellFormed(call.batch) =>
        LET rescored(b) == score_h(model, b)
        IN  LooksUp(call.batch, 1, 2, 0, Relations, rescored)

\* C6 witness: score_t of an entity co-occurrence baseline answered a query
\* whose head differs from its relation with a row that holds a non-zero score.
C6_Witness ==
    /\ Scored("EntityCoOccurrenceBaseline", "score_t")
    /\ WellFormed(call.batch)
    /\ result.status = "returned"
    /\ \E i \in 1..BatchLen(call.batch) :
        /\ call.batch.rows[i][1] # call.batch.rows[i][2]
        /\ \E e \in 1..Len(result.value[i]) : result.value[i][e] # Zero

\* sum over r' of S[r, r'] * count(r', role = e), every relation r' a term, in
\* the floating-point arithmetic of the score matrices.
Aggregate(S, r, role, e) ==
    FSum([k \in 1..triples_factory.num_relations |->
            FMul(Get(S, r, k - 1),
                 FromInt(CountPairs(triples_factory.mapped_triples, 1, role, k - 1, e)))])

SoftInverseExpected(batch, key, direct, inverse, rescored(_)) ==
    /\ result.status = "returned"
    /\ Len(result.value) = BatchLen(batch)
    /\ \A i \in 1..BatchLen(batch) : \A e \in 0..(triples_factory.num_entities - 1) :
        result.value[i][e + 1] =
            FAdd(Aggregate(model.sim, batch.rows[i][key + 1], direct, e),
                 Aggregate(model.sim_inv, batch.rows[i][key + 1], inverse, e))
    /\ \A x \in Entities : rescored(WithColumn(batch, 1 - key, x)) = result

\* C7: SoftInverseTripleBaseline.score_t for a query (h, r) is, for every
\* entity e, sum over r' of sim[r, r'] * count(r', tail = e) plus sum over r'
\* of sim_inv[r, r'] * count(r', head = e); score_h exchanges the two count
\* matrices; the result does not depend on the known endpoint.
C7_SoftInverseAggregates ==
    /\ Scored("SoftInverseTripleBaseline", "score_t") /\ WellFormed(call.batch) =>
        LET rescored(b) == score_t(model, b)
        IN  SoftInverseExpected(call.batch, 1, 2, 0, rescored)
    /\ Scored("SoftInverseTripleBaseline", "score_h") /\ WellFormed(call.batch) =>
        LET rescored(b) == score_h(model, b)
        IN  SoftInverseExpected(call.batch, 0, 0, 2, rescored)

ScoringOps == {"score_t", "score_h", "score_hrt", "score_r"}

\* C8: for all three baselines, score_hrt and score_r always fail with an error
\* and return no scores; a scoring call that returns a score matrix is a
\* score_t or a score_h.
C8_OnlyTailAndHeadScoring ==
    pc = "called" /\ call.op \in ScoringOps =>
        /\ call.op \in {"score_hrt", "score_r"} =>
            result.status = "raised" /\ result.error = "NotImplementedError"
        /\ result.status = "returned" => call.op \in {"score_t", "score_h"}

\* C8 witness: score_hrt was called on a soft inverse triple baseline with a
\* non-empty batch and raised.
C8_Witness ==
    /\ Scored("SoftInverseTripleBaseline", "score_hrt")
    /\ BatchLen(call.batch) > 0
    /\ result.status = "raised"

Malformed(batch) == BatchLen(batch) = 0 \/ batch.ncols # 2

\* C9: score_t and score_h of every baseline fail with InvalidBatchShapeError
\* when the batch is empty or its column count is not 2, and return no scores.
C9_MalformedBatchRejected ==
    pc = "called" /\ call.op \in {"score_t", "score_h"} /\ Malformed(call.batch) =>
        result.status = "raised" /\ result.error = "InvalidBatchShapeError"

(***************************************************************************)
(* Properties of the harness.                                              *)
(***************************************************************************)
HarnessOver ==
    /\ harness.phase \in {"returned", "raised"}
    /\ Running = {}

UnitFailed(u) == harness.units[u].status = "failed"

\* The units that fail by themselves: the dataset cannot be loaded, or it has
\* no validation triples and there is a trial to run.
FailsByItself(u) ==
    \/ harness.kind[UnitDataset(u)] = "unloadable"
    \/ harness.kind[UnitDataset(u)] = "no_validation" /\ harness.trials > 0

\* C10: when a unit fails, the failure stays with that unit: once the run is
\* over, every other unit has run to completion and each of its trial records
\* is in the resulting table.
C10_FailureIsIsolated ==
    HarnessOver /\ (\E u \in Units : UnitFailed(u)) =>
        \A v \in Units :
            FailsByItself(v) \/
                /\ harness.units[v].status = "done"
                /\ \A trial \in 0..(harness.trials - 1) :
                    \E k \in 1..Len(harness.df) : harness.df[k] = TrialRecord(v, trial)

\* C11: in every order and interleaving of the units and their trials, the
\* dataset a unit evaluates on in the iteration for trial index i is the
\* resplit of its loaded dataset with random seed i, for every trial index
\* below trials, whatever the pool has done before or does meanwhile; hence
\* any two runs of a unit use the same resplit for the same trial index.
C11_ResplitSeededByTrial ==
    \A u \in Units :
        /\ Len(harness.units[u].trial_datasets) <= harness.trials
        /\ \A k \in 1..Len(harness.units[u].trial_datasets) :
              harness.units[u].trial_datasets[k] = remix(dataset_cls(UnitDataset(u)), k - 1)

\* C11 witness: two units of one dataset run at the same time and their
\* trials interleave out of submission order: the later unit has run the
\* trials with index 0 and 1 while the earlier one has run only the trial
\* with index 0, and they used the same resplit for index 0.
C11_Witness ==
    \E u, v \in Units :
        /\ u < v
        /\ UnitDataset(u) = UnitDataset(v)
        /\ harness.units[u].status = "running"
        /\ harness.units[v].status = "running"
        /\ Len(harness.units[u].trial_datasets) = 1
        /\ Len(harness.units[v].trial_datasets) = 2
        /\ harness.units[v].trial_datasets[2].random_state = 1
        /\ harness.units[v].trial_datasets[1] = harness.units[u].trial_datasets[1]

\* C12: when _build returns (every unit succeeded), the table holds exactly
\* one record for each (dataset, configuration, trial index below trials)
\* combination and no other record; the value process_map yields for a unit is
\* the list that unit returned, and every record has as many fields as the
\* column list.
C12_OneRecordPerCombination ==
    harness.phase = "returned" =>
        /\ Len(harness.df) = NumUnits * harness.trials
        /\ \A u \in Units : \A trial \in 0..(harness.trials - 1) :
              Cardinality({k \in 1..Len(harness.df) : harness.df[k] = TrialRecord(u, trial)}) = 1
        /\ \A k \in 1..Len(harness.df) :
              /\ \E u \in Units : \E trial \in 0..(harness.trials - 1) :
                    /\ harness.df[k] = TrialRecord(u, trial)
                    /\ harness.df[k][1].dataset = UnitDataset(u)
                    /\ harness.df[k][5].trial = trial
                    /\ harness.df[k][6].model = ModelName(UnitConfig(u).model_cls)
              /\ Len(harness.df[k]) = Len(columns)
        /\ Len(harness.it) = NumUnits
        /\ \A u \in Units :
              /\ harness.it[u] = harness.units[u].records
              /\ Len(harness.it[u]) = harness.trials
        /\ Len(columns) = 6 + Len(kwargs_keys) + 1 + Len(METRICS)

\* C12 witness: _build returned a table of two trials for every unit.
C12_Witness ==
    /\ harness.phase = "returned"
    /\ harness.trials = 2
    /\ Len(harness.df) = 2 * NumUnits
    /\ \A u \in Units : harness.units[u].status = "done"

(***************************************************************************)
(* Properties of the expected_metrics command.                             *)
(***************************************************************************)
MetricNames == {"mean_rank", "hits_at_1", "hits_at_3", "hits_at_5", "hits_at_10"}

\* The splits a dataset has.
SplitsOf(dataset_instance) ==
    {"training", "testing"} \cup (IF dataset_instance.validation THEN {"validation"} ELSE {})

\* The filter the claim names for a split.
ExpectedFilter(dataset_instance, key) ==
    IF key = "training" THEN <<>>
    ELSE IF key = "validation" THEN <<"training">>
    ELSE IF dataset_instance.validation THEN <<"training", "validation">>
    ELSE <<"training">>

ProcessedDatasets ==
    {analysis.datasets[i] : i \in 1..(analysis.current - 1)}

\* C13: for every dataset the command has processed, the persisted record has
\* one entry per split of the dataset; each entry has exactly the sides head,
\* tail and both, each side exactly the metrics mean_rank and hits_at_1, 3, 5,
\* 10; head and tail are computed from their own candidate column and both
\* from the two columns together; the candidate sizes of a split are those of
\* its own triples, filtered by nothing for training, the training triples for
\* validation, and the training plus (when present) validation triples for
\* testing.
C13_ExpectedMetricsRecord ==
    analysis.phase # "none" =>
        /\ {di.name : di \in ProcessedDatasets} \subseteq DOMAIN analysis.json
        /\ \A di \in ProcessedDatasets :
            LET record == analysis.json[di.name]
            IN  /\ DOMAIN record = SplitsOf(di)
                /\ \A key \in DOMAIN record :
                    /\ DOMAIN record[key] = {"head", "tail", "both"}
                    /\ \A label \in DOMAIN record[key] :
                        /\ DOMAIN record[key][label] = MetricNames
                        /\ \A name \in MetricNames :
                            LET v == record[key][label][name]
                                df == v.candidate_set_sizes.df
                            IN  /\ v.candidate_set_sizes.columns =
                                      (IF label = "both" THEN <<"head", "tail">> ELSE <<label>>)
                                /\ v.fn = (IF name = "mean_rank" THEN "expected_mean_rank"
                                           ELSE "expected_hits_at_k")
                                /\ name = "hits_at_1" => v.k = 1
                                /\ name = "hits_at_3" => v.k = 3
                                /\ name = "hits_at_5" => v.k = 5
                                /\ name = "hits_at_10" => v.k = 10
                                /\ df.dataset = di.name
                                /\ df.mapped_triples = key
                                /\ df.additional_filter_triples = ExpectedFilter(di, key)

\* C13 witness: the command has returned after it persisted the record of a
\* dataset with validation triples and of a dataset without.
C13_Witness ==
    /\ analysis.phase = "done"
    /\ Cardinality(analysis.candidates) = 5
    /\ \E di, dj \in ProcessedDatasets :
        /\ di.validation
        /\ ~dj.validation
        /\ DOMAIN analysis.json[di.name] = {"training", "validation", "testing"}
        /\ DOMAIN analysis.json[dj.name] = {"training", "testing"}

(***************************************************************************)
(* Properties of the relation similarity.                                  *)
(***************************************************************************)
\* P(r): the distinct (head, tail) pairs of relation r, reversed on demand.
PairsOf(ts, r, reversed) ==
    {IF reversed THEN <<Col(ts[k], 2), Col(ts[k], 0)>> ELSE <<Col(ts[k], 0), Col(ts[k], 2)>> :
        k \in {i \in 1..Len(ts) : Col(ts[i], 1) = r}}

\* |P(r1) /\ P(r2)| / |P(r1) \/ P(r2)|, zeroed below the threshold.
Jaccard(ts, r1, r2, to_inverse, threshold) ==
    LET p1 == PairsOf(ts, r1, FALSE)
        p2 == PairsOf(ts, r2, to_inverse)
        j == Frac(Cardinality(p1 \cap p2), Cardinality(p1 \cup p2))
    IN  IF threshold.given /\ FLess(j, threshold.value) THEN Zero ELSE j

\* C14: the similarity counts the presence of (head, tail) pairs, not their
\* multiplicity: for every pair of relations of which one is observed,
\* sim(r1, r2) is the Jaccard coefficient of their sets of distinct pairs (the
\* pairs of r2 reversed when to_inverse), and the matrix of the triple set
\* with one of its triples repeated is the same matrix.
C14_PresenceOnly ==
    SimCalled(call.to_inverse) =>
        LET ts == triples_factory.mapped_triples
            rels == 0..(triples_factory.num_relations - 1)
        IN  /\ \A r1, r2 \in rels :
                  RelationObserved(ts, r1) \/ RelationObserved(ts, r2) =>
                      Get(result.value, r1, r2)
                          = Jaccard(ts, r1, r2, call.to_inverse, call.threshold)
            /\ \A k \in 1..Len(ts) :
                  _get_relation_similarity(
                      [triples_factory EXCEPT !.mapped_triples = Append(ts, ts[k])],
                      call.to_inverse, call.threshold) = result

\* C15: when neither relation of a pair has a triple (intersection and union
\* are both 0), the similarity is 0: the entry is not stored, and no stored
\* entry of the matrix is nan.
C15_UnobservedPairsAbsent ==
    SimCalled(call.to_inverse) =>
        LET ts == triples_factory.mapped_triples
            rels == 0..(triples_factory.num_relations - 1)
        IN  /\ \A r1, r2 \in rels :
                  ~RelationObserved(ts, r1) /\ ~RelationObserved(ts, r2) =>
                      /\ <<r1, r2>> \notin Stored(result.value)
                      /\ Get(result.value, r1, r2) = Zero
            /\ \A p \in Stored(result.value) : ~IsNaN(result.value.data[p])

\* C16: whenever num_entities ** 2, the size of the pair index space, is
\* beyond the integer range, _get_relation_similarity fails on its assertion,
\* before any index is computed and any matrix is built, whatever the number
\* of relations.
C16_OverflowRejected ==
    /\ pc = "called"
    /\ call.op = "_get_relation_similarity"
    /\ triples_factory.num_entities * triples_factory.num_entities > IntMax
    => /\ result.status = "raised"
       /\ result.error = "AssertionError"

====
